---- MODULE Spec2Model ----
(***************************************************************************)
(* Hexagonal maze generator and solver (hexpathfinder).                    *)
(*                                                                         *)
(* generateMaze : randomized Kruskal over a hexagonal grid, with a         *)
(*                disjoint-set (DSU) structure with path compression.      *)
(* solveMazeBFS : breadth-first distance labelling from the end cell       *)
(*                (bottom-right) and path reconstruction from the start    *)
(*                cell (top-left).                                         *)
(*                                                                         *)
(* A cell is the byte the program stores (0..255); the bit operations are  *)
(* computed arithmetically.  A cell address is the pair <<r, c>>.          *)
(***************************************************************************)
EXTENDS Integers, Sequences, FiniteSets, TLC

VARIABLES
    nR,            \* number of rows of the run
    nC,            \* number of columns of the run
    maze,          \* maze[<<r, c>>] : the byte of cell (r, c), for in-grid cells
    pc,            \* position of the program
    parent,        \* DSU::parent of generateMaze (<< >> when no DSU is alive)
    internalWalls, \* generateMaze's candidate list, in the order it is built
    pending,       \* indices of internalWalls the shuffled loop has not visited yet
    wallsRemoved,  \* generateMaze's counter
    count,         \* solveMazeBFS's distance table (<< >> outside the call)
    q,             \* solveMazeBFS's queue of cell indices
    currentR,      \* path reconstruction: row of the current cell
    currentC,      \* path reconstruction: column of the current cell
    out,           \* the reports written to cerr / cout by the two algorithms
    entry,         \* history: the grid as it was when solveMazeBFS was entered
    path,          \* history: the cells path reconstruction has marked, in order
    twin,          \* a second generateMaze run fed the same candidate order
    probe,         \* one call of a pure helper: its arguments and its result
    pushed,        \* history: every cell index pushed onto q, in order
    driver         \* main: its arguments, what the last call returned to it,
                   \* and its exit code (-1 while it runs)

vars == <<nR, nC, maze, pc, parent, internalWalls, pending, wallsRemoved,
          count, q, currentR, currentC, out, entry, path, twin, probe,
          pushed, driver>>

-----------------------------------------------------------------------------
(* Bounds of the model.                                                    *)

\* Largest number of cells of the grid of a full run (generation followed by
\* solving): every nR x nC with nR * nC <= MaxCells.
MaxCells == 6

\* Largest number of cells of a grid handed to the solver with arbitrary
\* contents.
SolveMaxCells == 4

\* Number of wall bits an arbitrary grid has cleared on one side only.
MaxExtraOpen == 1

\* Largest number of rows and of columns the pure helpers are probed on.
ProbeMaxDim == 4

\* Largest number of elements of a DSU driven by arbitrary calls.
DSUMaxN == 4

-----------------------------------------------------------------------------
(* hexpathfinder.h : constants and cell values.                            *)

MAX_ROWS == 50
MAX_COLS == 50

WALL_UP == 1
WALL_UP_RIGHT == 2
WALL_DOWN_RIGHT == 4
WALL_DOWN == 8
WALL_DOWN_LEFT == 16
WALL_UP_LEFT == 32
ALL_WALLS == 63
VISITED == 64
DEAD_END == 128

\* The six directions of the hexagonal grid.
Directions ==
    {WALL_UP, WALL_UP_RIGHT, WALL_DOWN_RIGHT, WALL_DOWN, WALL_DOWN_LEFT, WALL_UP_LEFT}

\* The program computes on uint32_t.  Its callers pass 1 <= nR <= MAX_ROWS and
\* 1 <= nC <= MAX_COLS, so every index, counter and product stays in
\* 0 .. MAX_ROWS * MAX_COLS and no operation wraps.

-----------------------------------------------------------------------------
(* Byte arithmetic: the operators &, | and ~ on uint8_t.                   *)

RECURSIVE BitAnd(_, _)
BitAnd(a, b) ==
    IF a = 0 \/ b = 0 THEN 0
    ELSE (a % 2) * (b % 2) + 2 * BitAnd(a \div 2, b \div 2)

BitOr(a, b) == a + b - BitAnd(a, b)

\* v & ~mask, stored back into a uint8_t.
BitClear(v, mask) == v - BitAnd(v, mask)

-----------------------------------------------------------------------------
(* getOppositeWall (hexpathfinder.h).                                      *)

\* Mutant of getOppositeWall: the diagonals mirrored top to bottom instead of
\* through the centre.
getOppositeWallMirrored(wallDirection) ==
    CASE wallDirection = WALL_UP         -> WALL_DOWN
      [] wallDirection = WALL_UP_RIGHT   -> WALL_DOWN_RIGHT
      [] wallDirection = WALL_DOWN_RIGHT -> WALL_UP_RIGHT
      [] wallDirection = WALL_DOWN       -> WALL_UP
      [] wallDirection = WALL_DOWN_LEFT  -> WALL_UP_LEFT
      [] wallDirection = WALL_UP_LEFT    -> WALL_DOWN_LEFT
      [] OTHER                           -> 0

\* Mutant of getOppositeWall: the next direction clockwise.
getOppositeWallClockwise(wallDirection) ==
    CASE wallDirection = WALL_UP         -> WALL_UP_RIGHT
      [] wallDirection = WALL_UP_RIGHT   -> WALL_DOWN_RIGHT
      [] wallDirection = WALL_DOWN_RIGHT -> WALL_DOWN
      [] wallDirection = WALL_DOWN       -> WALL_DOWN_LEFT
      [] wallDirection = WALL_DOWN_LEFT  -> WALL_UP_LEFT
      [] wallDirection = WALL_UP_LEFT    -> WALL_UP
      [] OTHER                           -> 0

getOppositeWall(wallDirection) ==
    CASE wallDirection = WALL_UP         -> WALL_DOWN
      [] wallDirection = WALL_UP_RIGHT   -> WALL_DOWN_LEFT
      [] wallDirection = WALL_DOWN_RIGHT -> WALL_UP_LEFT
      [] wallDirection = WALL_DOWN       -> WALL_UP
      [] wallDirection = WALL_DOWN_LEFT  -> WALL_UP_RIGHT
      [] wallDirection = WALL_UP_LEFT    -> WALL_DOWN_RIGHT
      [] OTHER                           -> 0

-----------------------------------------------------------------------------
(* getNeighbor (main.cpp).  The result is the returned flag with the two   *)
(* output parameters; they are written only when the flag is TRUE.         *)

NoNeighbor == [ok |-> FALSE, r |-> 0, c |-> 0]

\* Mutant of the switch: the diagonals without the column parity.
NeighborCoordNoParity(r, c, wallDirection) ==
    CASE wallDirection = WALL_UP         -> <<r - 1, c>>
      [] wallDirection = WALL_DOWN       -> <<r + 1, c>>
      [] wallDirection = WALL_UP_RIGHT   -> <<r - 1, c + 1>>
      [] wallDirection = WALL_DOWN_RIGHT -> <<r, c + 1>>
      [] wallDirection = WALL_UP_LEFT    -> <<r - 1, c - 1>>
      [] wallDirection = WALL_DOWN_LEFT  -> <<r, c - 1>>
      [] OTHER                           -> << >>

\* The switch: the candidate coordinate <<tempR, tempC>>, or << >> for the
\* default branch (not one of the six directions).
NeighborCoord(r, c, wallDirection) ==
    CASE wallDirection = WALL_UP         -> <<r - 1, c>>
      [] wallDirection = WALL_DOWN       -> <<r + 1, c>>
      [] wallDirection = WALL_UP_RIGHT   -> <<r - 1 + (c % 2), c + 1>>
      [] wallDirection = WALL_DOWN_RIGHT -> <<r + (c % 2), c + 1>>
      [] wallDirection = WALL_UP_LEFT    -> <<r - 1 + (c % 2), c - 1>>
      [] wallDirection = WALL_DOWN_LEFT  -> <<r + (c % 2), c - 1>>
      [] OTHER                           -> << >>

getNeighbor(r, c, wallDirection, rows, cols) ==
    LET t == NeighborCoord(r, c, wallDirection) IN
    IF t = << >> THEN NoNeighbor
    ELSE IF t[1] >= 0 /\ t[1] < rows /\ t[2] >= 0 /\ t[2] < cols
         THEN [ok |-> TRUE, r |-> t[1], c |-> t[2]]
         ELSE NoNeighbor

-----------------------------------------------------------------------------
(* struct DSU (main.cpp).                                                  *)

\* DSU(n): parent = 0, 1, ..., n-1.
DSUInit(n) == [i \in 0 .. n - 1 |-> i]

\* find(i) with path compression: the root and the parent array afterwards.
RECURSIVE DSUFind(_, _)
DSUFind(p, i) ==
    IF p[i] = i THEN [ret |-> i, parent |-> p]
    ELSE LET sub == DSUFind(p, p[i])
         IN  [ret |-> sub.ret, parent |-> [sub.parent EXCEPT ![i] = sub.ret]]

\* Mutant of unite: the two roots are found and never linked.
DSUUniteNoLink(p, i, j) ==
    LET fi == DSUFind(p, i)
        fj == DSUFind(fi.parent, j)
    IN  fj.parent

\* Mutant of unite: the element i, not its root, is linked to the root of j.
DSUUniteLinkElement(p, i, j) ==
    LET fi == DSUFind(p, i)
        fj == DSUFind(fi.parent, j)
    IN  IF fi.ret # fj.ret
        THEN [fj.parent EXCEPT ![i] = fj.ret]
        ELSE fj.parent

\* unite(i, j): the parent array afterwards.
DSUUnite(p, i, j) ==
    LET fi == DSUFind(p, i)
        fj == DSUFind(fi.parent, j)
    IN  IF fi.ret # fj.ret
        THEN [fj.parent EXCEPT ![fi.ret] = fj.ret]
        ELSE fj.parent

-----------------------------------------------------------------------------
(* Grid helpers.                                                           *)

Cells(rows, cols) == (0 .. rows - 1) \X (0 .. cols - 1)

\* Mutant of the cell index: the row is not scaled by the row length.
CellIdxNoStride(r, c, cols) == r + c

\* r * nC + c
CellIdx(r, c, cols) == r * cols + c

\* (maze[r][c] & bit) != 0
HasBit(v, bit) == BitAnd(v, bit) # 0

-----------------------------------------------------------------------------
(* generateMaze (main.cpp).                                                *)

\* Mutant of step 1: maze[r][c] |= ALL_WALLS, which keeps the flag bits.
ResetGridOr(m, rows, cols) ==
    [cell \in DOMAIN m |->
        IF cell \in Cells(rows, cols) THEN BitOr(m[cell], ALL_WALLS) ELSE m[cell]]

\* Step 1: every in-grid cell is set to ALL_WALLS.
ResetGrid(m, rows, cols) ==
    [cell \in DOMAIN m |-> IF cell \in Cells(rows, cols) THEN ALL_WALLS ELSE m[cell]]

\* Mutant of step 3: WALL_DOWN_LEFT in the place of WALL_DOWN_RIGHT.
CandidateDirectionsDownLeft == <<WALL_DOWN, WALL_UP_RIGHT, WALL_DOWN_LEFT>>

\* Step 3: the directions a cell contributes candidates for, in the order of
\* the three if statements.
CandidateDirections == <<WALL_DOWN, WALL_UP_RIGHT, WALL_DOWN_RIGHT>>

\* The candidates pushed for cell (r, c).
CellWalls(r, c, rows, cols) ==
    LET all == [k \in 1 .. Len(CandidateDirections) |->
                   [r |-> r, c |-> c, direction |-> CandidateDirections[k]]]
    IN  SelectSeq(all, LAMBDA w : getNeighbor(w.r, w.c, w.direction, rows, cols).ok)

\* The two nested for loops, from the cell of row-major index k on.
RECURSIVE BuildInternalWalls(_, _, _)
BuildInternalWalls(k, rows, cols) ==
    IF k >= rows * cols THEN << >>
    ELSE CellWalls(k \div cols, k % cols, rows, cols)
            \o BuildInternalWalls(k + 1, rows, cols)

\* Mutant of the wall removal: the neighbour's bit is left set.
RemoveWallOneSide(m, r1, c1, direction, r2, c2) ==
    [m EXCEPT ![<<r1, c1>>] = BitClear(@, direction)]

\* Mutant of the removal: both cells lose the bit and its opposite.
RemoveWallBothBits(m, r1, c1, direction, r2, c2) ==
    LET oppositeWall == getOppositeWall(direction)
        m1 == [m EXCEPT ![<<r1, c1>>] = BitClear(BitClear(@, direction), oppositeWall)]
    IN  [m1 EXCEPT ![<<r2, c2>>] = BitClear(BitClear(@, direction), oppositeWall)]

\* The wall bits cleared on the two sides of a removed wall:
\* maze[r1][c1] &= ~direction;  maze[r2][c2] &= ~oppositeWall;
RemoveWall(m, r1, c1, direction, r2, c2) ==
    LET oppositeWall == getOppositeWall(direction)
        m1 == [m EXCEPT ![<<r1, c1>>] = BitClear(@, direction)]
    IN  [m1 EXCEPT ![<<r2, c2>>] = BitClear(@, oppositeWall)]

\* Step 5, one iteration of the loop body after the break test, on the state
\* st = [maze, parent, wallsRemoved].  The two operands of
\* dsu.find(cell1_idx) != dsu.find(cell2_idx) are evaluated in either order
\* (leftFirst).
ProcessWall(st, wall, rows, cols, leftFirst) ==
    LET nb == getNeighbor(wall.r, wall.c, wall.direction, rows, cols) IN
    IF ~nb.ok THEN st
    ELSE LET cell1_idx == CellIdx(wall.r, wall.c, cols)
             cell2_idx == CellIdx(nb.r, nb.c, cols)
             a  == IF leftFirst THEN cell1_idx ELSE cell2_idx
             b  == IF leftFirst THEN cell2_idx ELSE cell1_idx
             fa == DSUFind(st.parent, a)
             fb == DSUFind(fa.parent, b)
         IN  IF fa.ret # fb.ret
             THEN [maze |-> RemoveWall(st.maze, wall.r, wall.c, wall.direction, nb.r, nb.c),
                   parent |-> DSUUnite(fb.parent, cell1_idx, cell2_idx),
                   wallsRemoved |-> st.wallsRemoved + 1]
             ELSE [st EXCEPT !.parent = fb.parent]

\* Mutant of the target: one wall short of a spanning tree.
TargetWallsOneShort(rows, cols) == rows * cols - 2

\* Mutant of the target: one wall for every cell.
TargetWallsAllCells(rows, cols) == rows * cols

\* targetWallsToRemove = totalCells - 1
TargetWallsToRemove(rows, cols) == rows * cols - 1

\* The state of generateMaze before its loop: steps 1 to 4.
GenStart(m, rows, cols) ==
    [maze |-> ResetGrid(m, rows, cols),
     parent |-> DSUInit(rows * cols),
     wallsRemoved |-> 0]

GenState == [maze |-> maze, parent |-> parent, wallsRemoved |-> wallsRemoved]

\* generateMaze is entered: the grid is reset, the DSU and the candidate list
\* are built and the list is shuffled.  std::shuffle leaves the list in some
\* order; the loop then visits it in that order.  The order is drawn as the
\* loop goes: pending holds the candidates the loop has not visited yet.
GenInitCore ==
    /\ pc = "generate"
    /\ LET st == GenStart(maze, nR, nC) IN
         /\ maze' = st.maze
         /\ parent' = st.parent
         /\ wallsRemoved' = st.wallsRemoved
    /\ internalWalls' = BuildInternalWalls(0, nR, nC)
    /\ pending' = 1 .. Len(internalWalls')
    /\ pc' = "gen_loop"
    /\ UNCHANGED <<nR, nC, count, q, currentR, currentC, out, entry, path, probe, pushed, driver>>

\* One iteration of for (const auto& wall : internalWalls) that does not break.
GenStepCore(i, leftFirst) ==
    /\ pc = "gen_loop"
    /\ i \in pending
    /\ wallsRemoved < TargetWallsToRemove(nR, nC)
    /\ LET st == ProcessWall(GenState, internalWalls[i], nR, nC, leftFirst) IN
         /\ maze' = st.maze
         /\ parent' = st.parent
         /\ wallsRemoved' = st.wallsRemoved
    /\ pending' = pending \ {i}
    /\ UNCHANGED <<nR, nC, pc, internalWalls, count, q, currentR, currentC,
                   out, entry, path, probe, pushed, driver>>

\* The loop is left (the list is exhausted, or the break), the warning is
\* written when the target was not reached, and generateMaze returns: its
\* locals are gone.
GenEndCore ==
    /\ pc = "gen_loop"
    /\ (pending = {} \/ wallsRemoved >= TargetWallsToRemove(nR, nC))
    /\ out' = IF wallsRemoved < TargetWallsToRemove(nR, nC)
              THEN Append(out, "warning_walls") ELSE out
    /\ parent' = << >>
    /\ internalWalls' = << >>
    /\ pending' = {}
    /\ wallsRemoved' = 0
    /\ pc' = "generated"
    /\ driver' = [driver EXCEPT !.ret = "void"]
    /\ UNCHANGED <<nR, nC, maze, count, q, currentR, currentC, entry, path, probe,
                   pushed>>

GenInit == GenInitCore /\ UNCHANGED twin

GenStep == \E i \in pending, leftFirst \in BOOLEAN :
               GenStepCore(i, leftFirst) /\ UNCHANGED twin

GenEnd == GenEndCore /\ UNCHANGED twin

-----------------------------------------------------------------------------
(* solveMazeBFS (main.cpp).                                                *)

\* uint8_t directions[] of the two loops, in their order.
ScanDirections ==
    <<WALL_UP, WALL_DOWN, WALL_UP_LEFT, WALL_UP_RIGHT, WALL_DOWN_LEFT, WALL_DOWN_RIGHT>>

\* Mutant of step 1: the flags of a previous call are left in place.
ClearVisitedNone(m, rows, cols) == m

\* Mutant of step 1: the flag is inverted, maze[r][c] ^= VISITED.
ClearVisitedFlip(m, rows, cols) ==
    [cell \in DOMAIN m |->
        IF cell \notin Cells(rows, cols) THEN m[cell]
        ELSE IF HasBit(m[cell], VISITED) THEN m[cell] - VISITED
        ELSE m[cell] + VISITED]

\* Mutant of step 1: both flag bits are cleared.
ClearVisitedToWalls(m, rows, cols) ==
    [cell \in DOMAIN m |->
        IF cell \in Cells(rows, cols) THEN BitAnd(m[cell], ALL_WALLS) ELSE m[cell]]

\* Step 1: maze[r][c] &= ~VISITED for every in-grid cell.
ClearVisited(m, rows, cols) ==
    [cell \in DOMAIN m |->
        IF cell \in Cells(rows, cols) THEN BitClear(m[cell], VISITED) ELSE m[cell]]

\* Mutant of the marking: the other flag bit.
MarkDeadEnd(m, r, c) == [m EXCEPT ![<<r, c>>] = BitOr(@, DEAD_END)]

\* maze[r][c] |= VISITED
MarkVisited(m, r, c) == [m EXCEPT ![<<r, c>>] = BitOr(@, VISITED)]

\* Mutant of step 3: the wall bit is not tested.
RECURSIVE ExploreThroughWalls(_, _, _, _, _, _, _)
ExploreThroughWalls(st, m, r, c, rows, cols, k) ==
    IF k > Len(ScanDirections) THEN st
    ELSE LET dir == ScanDirections[k]
             nb  == getNeighbor(r, c, dir, rows, cols)
             st1 == IF /\ nb.ok
                       /\ st.count[<<nb.r, nb.c>>] = -1
                    THEN [count |-> [st.count EXCEPT ![<<nb.r, nb.c>>] =
                                                       st.count[<<r, c>>] + 1],
                          q |-> Append(st.q, CellIdx(nb.r, nb.c, cols))]
                    ELSE st
         IN  ExploreThroughWalls(st1, m, r, c, rows, cols, k + 1)

\* Mutant of step 3: a neighbour is labelled and pushed whether or not it
\* has a count.
RECURSIVE ExploreRevisit(_, _, _, _, _, _, _)
ExploreRevisit(st, m, r, c, rows, cols, k) ==
    IF k > Len(ScanDirections) THEN st
    ELSE LET dir == ScanDirections[k]
             nb  == getNeighbor(r, c, dir, rows, cols)
             st1 == IF /\ ~HasBit(m[<<r, c>>], dir)
                       /\ nb.ok
                    THEN [count |-> [st.count EXCEPT ![<<nb.r, nb.c>>] =
                                                       st.count[<<r, c>>] + 1],
                          q |-> Append(st.q, CellIdx(nb.r, nb.c, cols))]
                    ELSE st
         IN  ExploreRevisit(st1, m, r, c, rows, cols, k + 1)

\* Step 3: the for loop over the directions of the dequeued cell (r, c), from
\* the k-th direction on, on the state st = [count, q].
RECURSIVE Explore(_, _, _, _, _, _, _)
Explore(st, m, r, c, rows, cols, k) ==
    IF k > Len(ScanDirections) THEN st
    ELSE LET dir == ScanDirections[k]
             nb  == getNeighbor(r, c, dir, rows, cols)
             st1 == IF /\ ~HasBit(m[<<r, c>>], dir)
                       /\ nb.ok
                       /\ st.count[<<nb.r, nb.c>>] = -1
                    THEN [count |-> [st.count EXCEPT ![<<nb.r, nb.c>>] =
                                                       st.count[<<r, c>>] + 1],
                          q |-> Append(st.q, CellIdx(nb.r, nb.c, cols))]
                    ELSE st
         IN  Explore(st1, m, r, c, rows, cols, k + 1)

\* Mutant of step 4: the wall bit is not tested.
RECURSIVE NextOnPathThroughWalls(_, _, _, _, _, _, _)
NextOnPathThroughWalls(m, cnt, r, c, rows, cols, k) ==
    IF k > Len(ScanDirections) THEN NoNeighbor
    ELSE LET dir == ScanDirections[k]
             nb  == getNeighbor(r, c, dir, rows, cols)
         IN  IF /\ nb.ok
                /\ cnt[<<nb.r, nb.c>>] = cnt[<<r, c>>] - 1
             THEN nb
             ELSE NextOnPathThroughWalls(m, cnt, r, c, rows, cols, k + 1)

\* Mutant of step 4: any neighbour that has a count qualifies.
RECURSIVE NextOnPathAnyLabelled(_, _, _, _, _, _, _)
NextOnPathAnyLabelled(m, cnt, r, c, rows, cols, k) ==
    IF k > Len(ScanDirections) THEN NoNeighbor
    ELSE LET dir == ScanDirections[k]
             nb  == getNeighbor(r, c, dir, rows, cols)
         IN  IF /\ ~HasBit(m[<<r, c>>], dir)
                /\ nb.ok
                /\ cnt[<<nb.r, nb.c>>] # -1
             THEN nb
             ELSE NextOnPathAnyLabelled(m, cnt, r, c, rows, cols, k + 1)

\* Step 4: the for loop of one reconstruction step at cell (r, c), from the
\* k-th direction on: the neighbour moved to, or NoNeighbor (foundNext false).
RECURSIVE NextOnPath(_, _, _, _, _, _, _)
NextOnPath(m, cnt, r, c, rows, cols, k) ==
    IF k > Len(ScanDirections) THEN NoNeighbor
    ELSE LET dir == ScanDirections[k]
             nb  == getNeighbor(r, c, dir, rows, cols)
         IN  IF /\ ~HasBit(m[<<r, c>>], dir)
                /\ nb.ok
                /\ cnt[<<nb.r, nb.c>>] = cnt[<<r, c>>] - 1
             THEN nb
             ELSE NextOnPath(m, cnt, r, c, rows, cols, k + 1)

\* solveMazeBFS is entered: steps 1 and 2.  endR >= nR || endC >= nC is false
\* for every nR, nC >= 1, the only values the callers pass.
SolveInit ==
    /\ pc = "generated"
    /\ entry' = maze
    /\ path' = << >>
    /\ maze' = ClearVisited(maze, nR, nC)
    /\ IF nR - 1 >= nR \/ nC - 1 >= nC
       THEN /\ count' = [cell \in Cells(nR, nC) |-> -1]
            /\ q' = << >>
            /\ out' = Append(out, "end_invalid")
            /\ pc' = "solve_ret"
       ELSE /\ count' = [cell \in Cells(nR, nC) |->
                            IF cell = <<nR - 1, nC - 1>> THEN 0 ELSE -1]
            /\ q' = <<CellIdx(nR - 1, nC - 1, nC)>>
            /\ out' = out
            /\ pc' = "bfs"
    /\ pushed' = q'
    /\ UNCHANGED <<nR, nC, parent, internalWalls, pending, wallsRemoved,
                   currentR, currentC, twin, probe, driver>>

\* One iteration of while (!q.empty()).
BfsStep ==
    /\ pc = "bfs"
    /\ q # << >>
    /\ LET currentIdx == Head(q)
           st == Explore([count |-> count, q |-> Tail(q)], maze,
                         currentIdx \div nC, currentIdx % nC, nR, nC, 1)
       IN  /\ count' = st.count
           /\ q' = st.q
           /\ pushed' = pushed \o SubSeq(st.q, Len(q), Len(st.q))
    /\ UNCHANGED <<nR, nC, maze, pc, parent, internalWalls, pending, wallsRemoved,
                   currentR, currentC, out, entry, path, twin, probe, driver>>

\* The queue is empty: the test of count[startR][startC], and the start cell
\* marked when it was reached.
BfsEnd ==
    /\ pc = "bfs"
    /\ q = << >>
    /\ IF count[<<0, 0>>] = -1
       THEN /\ out' = Append(out, "no_solution")
            /\ pc' = "solve_ret"
            /\ UNCHANGED <<maze, currentR, currentC, path>>
       ELSE /\ currentR' = 0
            /\ currentC' = 0
            /\ maze' = MarkVisited(maze, 0, 0)
            /\ path' = <<<<0, 0>>>>
            /\ pc' = "trace"
            /\ out' = out
    /\ UNCHANGED <<nR, nC, parent, internalWalls, pending, wallsRemoved,
                   count, q, entry, twin, probe, pushed, driver>>

\* One iteration of while (count[currentR][currentC] != 0).
TraceStep ==
    /\ pc = "trace"
    /\ count[<<currentR, currentC>>] # 0
    /\ LET nb == NextOnPath(maze, count, currentR, currentC, nR, nC, 1) IN
       IF nb.ok
       THEN /\ currentR' = nb.r
            /\ currentC' = nb.c
            /\ maze' = MarkVisited(maze, nb.r, nb.c)
            /\ path' = Append(path, <<nb.r, nb.c>>)
            /\ UNCHANGED <<pc, out>>
       ELSE /\ out' = Append(out, "trace_error")
            /\ pc' = "solve_ret"
            /\ UNCHANGED <<maze, currentR, currentC, path>>
    /\ UNCHANGED <<nR, nC, parent, internalWalls, pending, wallsRemoved,
                   count, q, entry, twin, probe, pushed, driver>>

\* The reconstruction loop ends at a cell of count 0.
TraceEnd ==
    /\ pc = "trace"
    /\ count[<<currentR, currentC>>] = 0
    /\ pc' = "solve_ret"
    /\ UNCHANGED <<nR, nC, maze, parent, internalWalls, pending, wallsRemoved,
                   count, q, currentR, currentC, out, entry, path, twin, probe, pushed, driver>>

\* solveMazeBFS returns: its locals are gone.
SolveReturn ==
    /\ pc = "solve_ret"
    /\ count' = << >>
    /\ q' = << >>
    /\ currentR' = 0
    /\ currentC' = 0
    /\ pc' = "solved"
    /\ pushed' = << >>
    /\ driver' = [driver EXCEPT !.ret = "void"]
    /\ UNCHANGED <<nR, nC, maze, parent, internalWalls, pending, wallsRemoved,
                   out, entry, path, twin, probe>>

-----------------------------------------------------------------------------
(* main (main.cpp): a full run.  The grid is the static array, zero before *)
(* generateMaze; the dimensions are the accepted ones, bounded by the      *)
(* number of cells.                                                        *)

Dims(maxCells) ==
    {d \in (1 .. maxCells) \X (1 .. maxCells) : d[1] * d[2] <= maxCells}

NoLocals ==
    /\ parent = << >>
    /\ internalWalls = << >>
    /\ pending = {}
    /\ wallsRemoved = 0
    /\ count = << >>
    /\ q = << >>
    /\ currentR = 0
    /\ currentC = 0
    /\ out = << >>
    /\ entry = << >>
    /\ path = << >>
    /\ pushed = << >>

\* main past its argument checks, about to call generateMaze: the arguments
\* were the accepted dimensions.
DriverAccepted(rows, cols) ==
    [argc |-> 3,
     arg1 |-> [kind |-> "int", value |-> rows],
     arg2 |-> [kind |-> "int", value |-> cols],
     ret |-> "none",
     exitCode |-> -1]

Init ==
    /\ \E d \in Dims(MaxCells) : nR = d[1] /\ nC = d[2]
    /\ maze = [cell \in Cells(nR, nC) |-> 0]
    /\ pc = "generate"
    /\ NoLocals
    /\ twin = << >>
    /\ probe = << >>
    /\ driver = DriverAccepted(nR, nC)

\* Step 6: printMaze writes maze.ps; it reads the grid and changes nothing.
MainPrint ==
    /\ pc = "solved"
    /\ pc' = "printed"
    /\ UNCHANGED <<nR, nC, maze, parent, internalWalls, pending, wallsRemoved,
                   count, q, currentR, currentC, out, entry, path, twin, probe,
                   pushed, driver>>

\* return 0;
MainExit ==
    /\ pc = "printed"
    /\ pc' = "exit"
    /\ driver' = [driver EXCEPT !.exitCode = 0]
    /\ UNCHANGED <<nR, nC, maze, parent, internalWalls, pending, wallsRemoved,
                   count, q, currentR, currentC, out, entry, path, twin, probe,
                   pushed>>

Next ==
    \/ GenInit
    \/ GenStep
    \/ GenEnd
    \/ SolveInit
    \/ BfsStep
    \/ BfsEnd
    \/ TraceStep
    \/ TraceEnd
    \/ SolveReturn
    \/ MainPrint
    \/ MainExit

Spec == Init /\ [][Next]_vars

-----------------------------------------------------------------------------
(* solveMazeBFS called on an arbitrary grid.  The grid is drawn as: a set  *)
(* of walls open on both sides, at most MaxExtraOpen wall bits cleared on  *)
(* one side only (border bits included), and flag bits left in no cell, in *)
(* the start cell or in every cell.                                        *)

\* Every wall between two in-grid cells, named once by its lower-index side.
InternalEdges(rows, cols) ==
    {e \in Cells(rows, cols) \X {WALL_DOWN, WALL_UP_RIGHT, WALL_DOWN_RIGHT} :
        getNeighbor(e[1][1], e[1][2], e[2], rows, cols).ok}

\* The wall bits of cell that the choice (open, extra) clears.
ClearedBits(cell, open, extra, rows, cols) ==
    {d \in Directions :
        \/ <<cell, d>> \in open
        \/ <<cell, d>> \in extra
        \/ LET nb == getNeighbor(cell[1], cell[2], d, rows, cols)
           IN  nb.ok /\ <<<<nb.r, nb.c>>, getOppositeWall(d)>> \in open}

RECURSIVE SumOf(_)
SumOf(S) == IF S = {} THEN 0 ELSE LET x == CHOOSE x \in S : TRUE IN x + SumOf(S \ {x})

ArbitraryGrid(open, extra, flagged, flags, rows, cols) ==
    [cell \in Cells(rows, cols) |->
        ALL_WALLS - SumOf(ClearedBits(cell, open, extra, rows, cols))
                  + (IF cell \in flagged THEN flags ELSE 0)]

\* The subsets of S of at most n elements.
RECURSIVE SmallSubsets(_, _)
SmallSubsets(S, n) ==
    IF n = 0 THEN {{}}
    ELSE LET prev == SmallSubsets(S, n - 1)
         IN  prev \cup {T \cup {x} : T \in prev, x \in S}

InitSolve ==
    /\ \E d \in Dims(SolveMaxCells) : nR = d[1] /\ nC = d[2]
    /\ \E open \in SUBSET InternalEdges(nR, nC),
          extra \in SmallSubsets(Cells(nR, nC) \X Directions, MaxExtraOpen),
          flagged \in {{}, {<<0, 0>>}, Cells(nR, nC)},
          flags \in {VISITED, VISITED + DEAD_END} :
          maze = ArbitraryGrid(open, extra, flagged, flags, nR, nC)
    /\ pc = "generated"
    /\ NoLocals
    /\ twin = << >>
    /\ probe = << >>
    /\ driver = DriverAccepted(nR, nC)

NextSolve ==
    \/ SolveInit
    \/ BfsStep
    \/ BfsEnd
    \/ TraceStep
    \/ TraceEnd
    \/ SolveReturn

SpecSolve == InitSolve /\ [][NextSolve]_vars

-----------------------------------------------------------------------------
(* solveMazeBFS called twice in a row on an arbitrary grid.  twin keeps    *)
(* the grid the first call returned.                                       *)

\* The second call: solveMazeBFS(maze, nR, nC) again.
SolveAgain ==
    /\ pc = "solved"
    /\ DOMAIN twin = {}
    /\ twin' = [maze |-> maze]
    /\ pc' = "generated"
    /\ UNCHANGED <<nR, nC, maze, parent, internalWalls, pending, wallsRemoved,
                   count, q, currentR, currentC, out, entry, path, probe,
                   pushed, driver>>

NextTwice ==
    \/ SolveInit
    \/ BfsStep
    \/ BfsEnd
    \/ TraceStep
    \/ TraceEnd
    \/ SolveReturn
    \/ SolveAgain

SpecTwice == InitSolve /\ [][NextTwice]_vars

-----------------------------------------------------------------------------
(* Every way the core runs: the full run of main, and the run of main from *)
(* its call of solveMazeBFS with the grid holding arbitrary contents.      *)

InitRuns == Init \/ InitSolve

SpecRuns == InitRuns /\ [][Next]_vars

\* The for loop of generateMaze moves on to a candidate: what GenStep does to
\* pending, whatever the iteration does to the grid and the DSU.  It is
\* enabled exactly when GenStep is, and among the steps of Next only a
\* GenStep is one.
LoopAdvance ==
    \E i \in pending :
        /\ pc = "gen_loop"
        /\ wallsRemoved < TargetWallsToRemove(nR, nC)
        /\ pending' = pending \ {i}

\* The steps of main from the call of solveMazeBFS to return 0.
MainAfterGenerate ==
    \/ SolveInit
    \/ BfsStep
    \/ BfsEnd
    \/ TraceStep
    \/ TraceEnd
    \/ SolveReturn
    \/ MainPrint
    \/ MainExit

\* The same runs with the program never stopping short of its return: main
\* is one sequential thread, which takes its next step whenever it has one.
SpecRunsLive ==
    /\ InitRuns
    /\ [][Next]_vars
    /\ WF_vars(GenInit)
    /\ WF_pending(LoopAdvance)
    /\ WF_vars(GenEnd)
    /\ WF_vars(MainAfterGenerate)

-----------------------------------------------------------------------------
(* generateMaze run twice on the same candidate order, from two grids of   *)
(* arbitrary prior contents.  twin = [maze, parent, wallsRemoved] is the   *)
(* second run; each run applies its own break test.                        *)

\* Prior contents: one byte in every cell but one.
PriorGrids(rows, cols) ==
    LET bytes == {0, ALL_WALLS + VISITED, WALL_UP + WALL_DOWN_RIGHT + DEAD_END}
    IN  {[cell \in Cells(rows, cols) |-> IF cell = x THEN a ELSE b] :
            x \in Cells(rows, cols), a \in bytes, b \in bytes}

InitDet ==
    /\ \E d \in Dims(MaxCells) : nR = d[1] /\ nC = d[2]
    /\ maze \in PriorGrids(nR, nC)
    /\ \E m2 \in PriorGrids(nR, nC) :
          twin = [maze |-> m2, parent |-> << >>, wallsRemoved |-> 0]
    /\ pc = "generate"
    /\ NoLocals
    /\ probe = << >>
    /\ driver = DriverAccepted(nR, nC)

DetGenInit == GenInitCore /\ twin' = GenStart(twin.maze, nR, nC)

DetGenStep ==
    \E i \in pending, leftFirst \in BOOLEAN, twinLeftFirst \in BOOLEAN :
        /\ pc = "gen_loop"
        /\ \/ wallsRemoved < TargetWallsToRemove(nR, nC)
           \/ twin.wallsRemoved < TargetWallsToRemove(nR, nC)
        /\ LET st == IF wallsRemoved < TargetWallsToRemove(nR, nC)
                     THEN ProcessWall(GenState, internalWalls[i], nR, nC, leftFirst)
                     ELSE GenState
           IN  /\ maze' = st.maze
               /\ parent' = st.parent
               /\ wallsRemoved' = st.wallsRemoved
        /\ twin' = IF twin.wallsRemoved < TargetWallsToRemove(nR, nC)
                   THEN ProcessWall(twin, internalWalls[i], nR, nC, twinLeftFirst)
                   ELSE twin
        /\ pending' = pending \ {i}
        /\ UNCHANGED <<nR, nC, pc, internalWalls, count, q, currentR, currentC,
                       out, entry, path, probe, pushed, driver>>

DetGenEnd ==
    /\ pc = "gen_loop"
    /\ \/ pending = {}
       \/ /\ wallsRemoved >= TargetWallsToRemove(nR, nC)
          /\ twin.wallsRemoved >= TargetWallsToRemove(nR, nC)
    /\ out' = IF wallsRemoved < TargetWallsToRemove(nR, nC)
              THEN Append(out, "warning_walls") ELSE out
    /\ parent' = << >>
    /\ internalWalls' = << >>
    /\ pending' = {}
    /\ wallsRemoved' = 0
    /\ twin' = [twin EXCEPT !.parent = << >>, !.wallsRemoved = 0]
    /\ pc' = "generated"
    /\ driver' = [driver EXCEPT !.ret = "void"]
    /\ UNCHANGED <<nR, nC, maze, count, q, currentR, currentC, entry, path, probe,
                   pushed>>

NextDet ==
    \/ DetGenInit
    \/ DetGenStep
    \/ DetGenEnd

SpecDet == InitDet /\ [][NextDet]_vars

-----------------------------------------------------------------------------
(* The pure helpers called on their own: getNeighbor on a cell of the      *)
(* grid with any direction byte of ProbeDirections, getOppositeWall on     *)
(* that byte, then getNeighbor again from the neighbour found or           *)
(* getOppositeWall again on the opposite.                                  *)

ProbeDirections == Directions \cup {0, WALL_UP + WALL_UP_RIGHT, VISITED, DEAD_END, 255}

InitProbe ==
    /\ \E d \in (1 .. ProbeMaxDim) \X (1 .. ProbeMaxDim) : nR = d[1] /\ nC = d[2]
    /\ \E cell \in Cells(nR, nC), dir \in ProbeDirections :
          probe = [r |-> cell[1], c |-> cell[2], wallDirection |-> dir, step |-> 0,
                   nb |-> NoNeighbor, opposite |-> 0, back |-> NoNeighbor,
                   again |-> 0]
    /\ maze = << >>
    /\ pc = "probe"
    /\ NoLocals
    /\ twin = << >>
    /\ driver = DriverAccepted(nR, nC)

ProbeUnchanged ==
    UNCHANGED <<nR, nC, maze, pc, parent, internalWalls, pending, wallsRemoved,
                count, q, currentR, currentC, out, entry, path, twin,
                pushed, driver>>

\* getNeighbor(r, c, wallDirection, nR, nC, ...)
ProbeNeighbor ==
    /\ pc = "probe"
    /\ probe.step = 0
    /\ probe' = [probe EXCEPT !.step = 1,
                    !.nb = getNeighbor(probe.r, probe.c, probe.wallDirection, nR, nC)]
    /\ ProbeUnchanged

\* getOppositeWall(wallDirection)
ProbeOpposite ==
    /\ pc = "probe"
    /\ probe.step = 1
    /\ probe' = [probe EXCEPT !.step = 2,
                    !.opposite = getOppositeWall(probe.wallDirection)]
    /\ ProbeUnchanged

\* getNeighbor(r2, c2, opposite, nR, nC, ...) from the neighbour found.
ProbeBack ==
    /\ pc = "probe"
    /\ probe.step = 2
    /\ probe.nb.ok
    /\ probe' = [probe EXCEPT !.step = 3,
                    !.back = getNeighbor(probe.nb.r, probe.nb.c, probe.opposite, nR, nC)]
    /\ ProbeUnchanged

\* getOppositeWall(getOppositeWall(wallDirection))
ProbeOppositeAgain ==
    /\ pc = "probe"
    /\ probe.step = 2
    /\ probe' = [probe EXCEPT !.step = 4,
                    !.again = getOppositeWall(probe.opposite)]
    /\ ProbeUnchanged

NextProbe ==
    \/ ProbeNeighbor
    \/ ProbeOpposite
    \/ ProbeBack
    \/ ProbeOppositeAgain

SpecProbe == InitProbe /\ [][NextProbe]_vars

-----------------------------------------------------------------------------
(* main (main.cpp) from its first line: the argument checks.  An argument  *)
(* is text stoi cannot convert, a number too large for int, or an int.     *)
(* Runs whose accepted grid has more than MaxCells cells stop before       *)
(* generateMaze.                                                           *)

ArgValues ==
    {[kind |-> "text", value |-> 0], [kind |-> "huge", value |-> 0]} \cup
    {[kind |-> "int", value |-> v] : v \in {-1, 0, 1, 2, 3, MAX_ROWS, MAX_ROWS + 1}}

\* Mutant of the range test: zero is let through.
DimsRejectedNegativeOnly(rows, cols) ==
    rows < 0 \/ rows > MAX_ROWS \/ cols < 0 \/ cols > MAX_COLS

\* rows <= 0 || rows > MAX_ROWS || cols <= 0 || cols > MAX_COLS
DimsRejected(rows, cols) ==
    rows <= 0 \/ rows > MAX_ROWS \/ cols <= 0 \/ cols > MAX_COLS

\* The exception the two stoi calls raise, argv[1] first, or "none".
StoiThrows(arg1, arg2) ==
    IF arg1.kind = "text" THEN "invalid_argument"
    ELSE IF arg1.kind = "huge" THEN "out_of_range"
    ELSE IF arg2.kind = "text" THEN "invalid_argument"
    ELSE IF arg2.kind = "huge" THEN "out_of_range"
    ELSE "none"

\* The report main writes before return 1, or "none" when the arguments are
\* accepted.
MainRejects(d) ==
    IF d.argc # 3 THEN "usage"
    ELSE IF StoiThrows(d.arg1, d.arg2) = "invalid_argument" THEN "error_format"
    ELSE IF StoiThrows(d.arg1, d.arg2) = "out_of_range" THEN "error_range"
    ELSE IF DimsRejected(d.arg1.value, d.arg2.value) THEN "error_range"
    ELSE "none"

InitMain ==
    /\ \E argc \in {2, 3, 4}, a1 \in ArgValues, a2 \in ArgValues :
          driver = [argc |-> argc, arg1 |-> a1, arg2 |-> a2,
                    ret |-> "none", exitCode |-> -1]
    /\ nR = 0
    /\ nC = 0
    /\ maze = << >>
    /\ pc = "main"
    /\ NoLocals
    /\ twin = << >>
    /\ probe = << >>

\* Steps 1 to 3 of main: the arguments are rejected with return 1, or nR and
\* nC are set and the (zeroed, static) grid is declared.
MainParse ==
    /\ pc = "main"
    /\ IF MainRejects(driver) # "none"
       THEN /\ out' = Append(out, MainRejects(driver))
            /\ driver' = [driver EXCEPT !.exitCode = 1]
            /\ pc' = "exit"
            /\ UNCHANGED <<nR, nC, maze>>
       ELSE /\ nR' = driver.arg1.value
            /\ nC' = driver.arg2.value
            /\ maze' = [cell \in Cells(nR', nC') |-> 0]
            /\ pc' = "generate"
            /\ UNCHANGED <<out, driver>>
    /\ UNCHANGED <<parent, internalWalls, pending, wallsRemoved, count, q,
                   currentR, currentC, entry, path, twin, probe, pushed>>

NextMain ==
    \/ MainParse
    \/ (nR * nC <= MaxCells /\ Next)

SpecMain == InitMain /\ [][NextMain]_vars

-----------------------------------------------------------------------------
(* struct DSU driven by arbitrary calls: DSU dsu(nR * nC) as generateMaze  *)
(* constructs it, then any sequence of find(i) and unite(i, j).  probe     *)
(* keeps the pairs of two elements the unite calls named so far.           *)

InitDSU ==
    /\ nR = 1
    /\ nC \in 1 .. DSUMaxN
    /\ parent = DSUInit(nR * nC)
    /\ probe = [united |-> {}]
    /\ maze = << >>
    /\ pc = "dsu"
    /\ internalWalls = << >>
    /\ pending = {}
    /\ wallsRemoved = 0
    /\ count = << >>
    /\ q = << >>
    /\ currentR = 0
    /\ currentC = 0
    /\ out = << >>
    /\ entry = << >>
    /\ path = << >>
    /\ pushed = << >>
    /\ twin = << >>
    /\ driver = DriverAccepted(nR, nC)

DSUUnchanged ==
    UNCHANGED <<nR, nC, maze, pc, internalWalls, pending, wallsRemoved,
                count, q, currentR, currentC, out, entry, path, twin,
                pushed, driver>>

\* dsu.find(i)
DSUFindCall ==
    \E i \in 0 .. nR * nC - 1 :
        /\ pc = "dsu"
        /\ parent' = DSUFind(parent, i).parent
        /\ UNCHANGED probe
        /\ DSUUnchanged

\* dsu.unite(i, j)
DSUUniteCall ==
    \E i \in 0 .. nR * nC - 1, j \in 0 .. nR * nC - 1 :
        /\ pc = "dsu"
        /\ parent' = DSUUnite(parent, i, j)
        /\ probe' = [probe EXCEPT !.united = IF i = j THEN @ ELSE @ \cup {{i, j}}]
        /\ DSUUnchanged

NextDSU ==
    \/ DSUFindCall
    \/ DSUUniteCall

SpecDSU == InitDSU /\ [][NextDSU]_vars

-----------------------------------------------------------------------------
(* Reference notions the properties are stated with.                       *)

\* Cell a has no wall in direction d and a neighbour there.
OpenTo(m, a, d, rows, cols) ==
    /\ ~HasBit(m[a], d)
    /\ getNeighbor(a[1], a[2], d, rows, cols).ok

NeighborCell(a, d, rows, cols) ==
    LET nb == getNeighbor(a[1], a[2], d, rows, cols) IN <<nb.r, nb.c>>

\* The cells one open passage away from a.
OpenNeighbors(m, a, rows, cols) ==
    {NeighborCell(a, d, rows, cols) : d \in {e \in Directions : OpenTo(m, a, e, rows, cols)}}

\* The open passages, each an unordered pair of cells.
OpenPassages(m, rows, cols) ==
    UNION {{{a, b} : b \in OpenNeighbors(m, a, rows, cols)} : a \in Cells(rows, cols)}

\* Wall symmetry of a grid.
Symmetric(m, rows, cols) ==
    \A a \in Cells(rows, cols), d \in Directions :
        LET nb == getNeighbor(a[1], a[2], d, rows, cols) IN
        nb.ok => (HasBit(m[a], d) <=> HasBit(m[<<nb.r, nb.c>>], getOppositeWall(d)))

\* The simple open-passage paths from the last cell of p to b that extend p.
RECURSIVE SimplePathsFrom(_, _, _, _, _)
SimplePathsFrom(m, p, b, rows, cols) ==
    IF p[Len(p)] = b THEN {p}
    ELSE UNION {SimplePathsFrom(m, Append(p, n), b, rows, cols) :
                   n \in {x \in OpenNeighbors(m, p[Len(p)], rows, cols) :
                             \A k \in 1 .. Len(p) : p[k] # x}}

SimplePaths(m, a, b, rows, cols) == SimplePathsFrom(m, <<a>>, b, rows, cols)

\* Hop counts from the goal by levels: dist maps the cells found so far,
\* frontier is the level k.
RECURSIVE LevelDistances(_, _, _, _, _, _)
LevelDistances(m, dist, frontier, k, rows, cols) ==
    LET next == {n \in UNION {OpenNeighbors(m, a, rows, cols) : a \in frontier} :
                    dist[n] = -1}
    IN  IF next = {} THEN dist
        ELSE LevelDistances(m, [n \in DOMAIN dist |-> IF n \in next THEN k + 1 ELSE dist[n]],
                            next, k + 1, rows, cols)

\* The shortest number of open-passage hops from goal to every cell, -1 for
\* the cells no path reaches.
ShortestHops(m, goal, rows, cols) ==
    LevelDistances(m, [a \in Cells(rows, cols) |-> IF a = goal THEN 0 ELSE -1],
                   {goal}, 0, rows, cols)

Start == <<0, 0>>
Goal == <<nR - 1, nC - 1>>

\* The cells carrying the path flag.
Flagged(m) == {a \in DOMAIN m : HasBit(m[a], VISITED)}

-----------------------------------------------------------------------------
(* Properties of generation.                                               *)

\* C1: when generateMaze has finished, on every grid size and for every
\* order of the candidates, the grid has exactly nR*nC-1 open passages and
\* every pair of cells is joined by exactly one simple open-passage path
\* (the open-passage graph is connected and acyclic).
C1_SpanningTree ==
    pc \in {"generated", "bfs", "trace", "solve_ret", "solved"} =>
        /\ Cardinality(OpenPassages(maze, nR, nC)) = nR * nC - 1
        /\ \A a \in Cells(nR, nC), b \in Cells(nR, nC) :
              Cardinality(SimplePaths(maze, a, b, nR, nC)) = 1

C1_Witness ==
    /\ pc = "generated"
    /\ nR = 2
    /\ nC = 3
    /\ Cardinality(OpenPassages(maze, nR, nC)) = 5

\* C2: between two candidate-processing steps of generation and in the final
\* grid, a cell has the wall bit d set iff its neighbour in direction d has
\* the opposite wall bit set.
C2_WallSymmetry ==
    pc \in {"gen_loop", "generated"} => Symmetric(maze, nR, nC)

C2_Witness ==
    /\ pc = "gen_loop"
    /\ wallsRemoved >= 1
    /\ pending # {}
    /\ \E a \in Cells(nR, nC) : maze[a] # ALL_WALLS

\* The two cells a candidate separates.
EdgeOf(w, rows, cols) == {<<w.r, w.c>>, NeighborCell(<<w.r, w.c>>, w.direction, rows, cols)}

\* C8: the candidate list of generateMaze holds every wall between two
\* adjacent in-grid cells exactly once, and every candidate resolves to an
\* in-grid neighbour.
C8_CandidatesOnce ==
    pc = "gen_loop" =>
        /\ \A i \in 1 .. Len(internalWalls) :
              /\ <<internalWalls[i].r, internalWalls[i].c>> \in Cells(nR, nC)
              /\ getNeighbor(internalWalls[i].r, internalWalls[i].c,
                             internalWalls[i].direction, nR, nC).ok
        /\ \A i \in 1 .. Len(internalWalls), j \in 1 .. Len(internalWalls) :
              i # j => EdgeOf(internalWalls[i], nR, nC) # EdgeOf(internalWalls[j], nR, nC)
        /\ \A a \in Cells(nR, nC), d \in Directions :
              getNeighbor(a[1], a[2], d, nR, nC).ok =>
                  \E i \in 1 .. Len(internalWalls) :
                      EdgeOf(internalWalls[i], nR, nC) = {a, NeighborCell(a, d, nR, nC)}

C8_Witness ==
    /\ pc = "gen_loop"
    /\ nR = 2
    /\ nC = 3
    /\ Len(internalWalls) = 9
    /\ pending = 1 .. 9

\* C9: two runs of generateMaze on the same grid size and the same candidate
\* order end with identical grids, whatever the two grids held before.
C9_Deterministic ==
    pc = "generated" => maze = twin.maze

C9_Witness ==
    /\ pc = "generated"
    /\ nR * nC >= 4
    /\ maze = twin.maze
    /\ \E a \in Cells(nR, nC) : maze[a] # ALL_WALLS

-----------------------------------------------------------------------------
(* Properties of the neighbour geometry.                                   *)

\* C6: when getNeighbor(r, c, d) succeeds with (r2, c2), getNeighbor(r2, c2,
\* getOppositeWall(d)) succeeds and returns (r, c), in even and odd columns.
C6_NeighborSymmetry ==
    (pc = "probe" /\ probe.step = 3) =>
        /\ probe.back.ok
        /\ probe.back.r = probe.r
        /\ probe.back.c = probe.c

C6_Witness ==
    /\ pc = "probe"
    /\ probe.step = 3
    /\ probe.c % 2 = 1
    /\ probe.wallDirection = WALL_UP_RIGHT
    /\ probe.back.ok

\* The hex offset table: direction -> <<row delta, column delta>>.
EvenColumnOffsets ==
    (WALL_UP :> <<-1, 0>>) @@ (WALL_DOWN :> <<1, 0>>) @@
    (WALL_UP_RIGHT :> <<-1, 1>>) @@ (WALL_DOWN_RIGHT :> <<0, 1>>) @@
    (WALL_UP_LEFT :> <<-1, -1>>) @@ (WALL_DOWN_LEFT :> <<0, -1>>)

OddColumnOffsets ==
    (WALL_UP :> <<-1, 0>>) @@ (WALL_DOWN :> <<1, 0>>) @@
    (WALL_UP_RIGHT :> <<0, 1>>) @@ (WALL_DOWN_RIGHT :> <<1, 1>>) @@
    (WALL_UP_LEFT :> <<0, -1>>) @@ (WALL_DOWN_LEFT :> <<1, -1>>)

\* C7: getNeighbor agrees with the hex offset table; it reports no neighbour
\* exactly when the coordinate of the table is outside the grid or the
\* direction is not one of the six.
C7_OffsetTable ==
    (pc = "probe" /\ probe.step >= 1) =>
        IF probe.wallDirection \notin Directions THEN ~probe.nb.ok
        ELSE LET off == IF probe.c % 2 = 0
                        THEN EvenColumnOffsets[probe.wallDirection]
                        ELSE OddColumnOffsets[probe.wallDirection]
                 tr == probe.r + off[1]
                 tc == probe.c + off[2]
             IN  IF tr \in 0 .. nR - 1 /\ tc \in 0 .. nC - 1
                 THEN probe.nb.ok /\ probe.nb.r = tr /\ probe.nb.c = tc
                 ELSE ~probe.nb.ok

C7_Witness ==
    /\ pc = "probe"
    /\ probe.step = 1
    /\ probe.c % 2 = 1
    /\ probe.wallDirection = WALL_DOWN_LEFT
    /\ probe.nb.ok
    /\ probe.nb.r = probe.r + 1
    /\ probe.nb.c = probe.c - 1

-----------------------------------------------------------------------------
(* Properties of solving.                                                  *)

\* The BFS phase of solveMazeBFS is over and its table is alive.
AfterBfs == (pc = "bfs" /\ q = << >>) \/ pc \in {"trace", "solve_ret"}

\* C3: after the BFS phase on a grid with symmetric walls, count is 0 at the
\* goal cell, the shortest number of open-passage hops from the goal at
\* every reachable cell and -1 at every other cell.
C3_ShortestDistances ==
    (AfterBfs /\ Symmetric(maze, nR, nC)) =>
        /\ count[Goal] = 0
        /\ count = ShortestHops(maze, Goal, nR, nC)

C3_Witness ==
    /\ pc = "bfs"
    /\ q = << >>
    /\ Symmetric(maze, nR, nC)
    /\ nR = 2
    /\ nC = 2
    /\ count[Start] = 3

\* C4: when the start cell has a distance, the cells reconstruction visits
\* are count[start]+1 cells from the start to the goal, consecutive cells
\* joined by an open passage and one hop nearer to the goal, down to 0.
C4_ReconstructedPath ==
    (pc = "solve_ret" /\ count[Start] # -1) =>
        /\ Len(path) = count[Start] + 1
        /\ path[1] = Start
        /\ path[Len(path)] = Goal
        /\ count[path[Len(path)]] = 0
        /\ \A i \in 1 .. Len(path) - 1 :
              /\ path[i + 1] \in OpenNeighbors(maze, path[i], nR, nC)
              /\ count[path[i + 1]] = count[path[i]] - 1

C4_Witness ==
    /\ pc = "solve_ret"
    /\ count[Start] >= 4
    /\ Len(path) = count[Start] + 1

Range(f) == {f[x] : x \in DOMAIN f}

\* C5: after generateMaze and solveMazeBFS the flagged cells are exactly the
\* cells of the only simple open-passage path from the start to the goal,
\* whose number of edges is count[start].
C5_FlaggedIsThePath ==
    pc \in {"solve_ret", "solved"} =>
        LET P == SimplePaths(maze, Start, Goal, nR, nC) IN
        /\ Cardinality(P) = 1
        /\ \A p \in P :
              /\ Flagged(maze) = Range(p)
              /\ pc = "solve_ret" => Len(p) - 1 = count[Start]

C5_Witness ==
    /\ pc = "solved"
    /\ Cardinality(Flagged(maze)) >= 3
    /\ Flagged(maze) # Cells(nR, nC)
    /\ Start \in Flagged(maze)
    /\ Goal \in Flagged(maze)

\* C10: when the start cell has no distance after the BFS phase,
\* solveMazeBFS reports that no path was found and returns with no cell
\* flagged, also when cells were flagged before the call.
C10_UnreachableNoFlags ==
    /\ (pc = "solve_ret" /\ count[Start] = -1) => out = <<"no_solution">>
    /\ (pc \in {"solve_ret", "solved"} /\ out = <<"no_solution">>) => Flagged(maze) = {}

C10_Witness ==
    /\ pc = "solved"
    /\ out = <<"no_solution">>
    /\ Flagged(entry) # {}
    /\ Flagged(maze) = {}

-----------------------------------------------------------------------------
(* Properties of the failure reports.                                      *)

\* The current cell of the reconstruction has no open passage to a cell one
\* hop nearer to the goal.
NoNextCell ==
    ~ \E d \in Directions :
          /\ OpenTo(maze, <<currentR, currentC>>, d, nR, nC)
          /\ count[NeighborCell(<<currentR, currentC>>, d, nR, nC)]
                = count[<<currentR, currentC>>] - 1

\* C11: a reconstruction step taken at a cell that is not the goal and has no
\* open passage to a cell one hop nearer writes the trace-failure report,
\* which is not the unreachable-goal report, and ends the reconstruction
\* there: no cell is marked and the current cell stays.
C11_TraceFailureAborts ==
    [][(pc = "trace" /\ count[<<currentR, currentC>>] # 0 /\ NoNextCell) =>
          /\ pc' = "solve_ret"
          /\ out' = Append(out, "trace_error")
          /\ "no_solution" \notin Range(out')
          /\ maze' = maze
          /\ path' = path
          /\ <<currentR', currentC'>> = <<currentR, currentC>>]_vars

C11_Witness ==
    /\ pc = "solve_ret"
    /\ out = <<"trace_error">>
    /\ Len(path) >= 2
    /\ <<currentR, currentC>> = path[Len(path)]
    /\ Flagged(maze) = Range(path)

-----------------------------------------------------------------------------
(* Properties of main.                                                     *)

\* C12: each error condition reaches the driver as an explicit result: what
\* the driver receives from a call of the core tells success from failure
\* and, after a failure report, names the failure; no condition ends the
\* process other than by an exit code of main.
C12_FailuresSurfaced ==
    /\ (pc = "solved" /\ out = << >>) => driver.ret = "Success"
    /\ (pc = "generated" /\ "warning_walls" \in Range(out)) =>
           driver.ret = "ConnectivityWarning"
    /\ (pc = "solved" /\ "no_solution" \in Range(out)) =>
           driver.ret = "UnreachableGoal"
    /\ (pc = "solved" /\ "trace_error" \in Range(out)) =>
           driver.ret = "PathTraceInconsistency"
    /\ pc = "exit" => driver.exitCode \in {0, 1}

\* An argument pair the driver must refuse: a value below 1 or above the
\* maximum.
OutOfRange(d) ==
    /\ d.argc = 3
    /\ d.arg1.kind = "int"
    /\ d.arg2.kind = "int"
    /\ \/ d.arg1.value < 1
       \/ d.arg1.value > MAX_ROWS
       \/ d.arg2.value < 1
       \/ d.arg2.value > MAX_COLS

\* main is at or inside a call of generateMaze or solveMazeBFS, or past them.
InCore ==
    pc \in {"generate", "gen_loop", "generated", "bfs", "trace", "solve_ret",
            "solved", "printed"}

\* C13: dimensions of 0, below 0 or above 50 end main with exit code 1 and
\* the range report before generateMaze or solveMazeBFS is entered;
\* generation and solving run only with 1 <= nR <= 50 and 1 <= nC <= 50.
C13_RejectedBeforeCore ==
    /\ OutOfRange(driver) =>
          /\ ~InCore
          /\ pc = "exit" => (driver.exitCode = 1 /\ out = <<"error_range">>)
    /\ InCore =>
          /\ 1 <= nR
          /\ nR <= MAX_ROWS
          /\ 1 <= nC
          /\ nC <= MAX_COLS

C13_Witness ==
    /\ pc = "exit"
    /\ driver.exitCode = 1
    /\ driver.arg1 = [kind |-> "int", value |-> 0]
    /\ driver.arg2 = [kind |-> "int", value |-> 3]
    /\ out = <<"error_range">>
    /\ maze = << >>

-----------------------------------------------------------------------------
(* Properties of the union-find structure.                                 *)

\* dsu.find(i) == dsu.find(j), the two calls made one after the other.
SameSet(p, i, j) ==
    LET fi == DSUFind(p, i)
        fj == DSUFind(fi.parent, j)
    IN  fi.ret = fj.ret

\* The sets of the structure p.
Partition(p) == {{j \in DOMAIN p : SameSet(p, i, j)} : i \in DOMAIN p}

\* The elements related to an element of S by the pairs of united, in any
\* number of steps.
RECURSIVE RelatedTo(_, _)
RelatedTo(S, united) ==
    LET T == S \cup UNION {e \in united : e \cap S # {}}
    IN  IF T = S THEN S ELSE RelatedTo(T, united)

\* The partition after the sets of i and of j are merged.
Merged(P, i, j) ==
    LET Si == CHOOSE X \in P : i \in X
        Sj == CHOOSE X \in P : j \in X
    IN  (P \ {Si, Sj}) \cup {Si \cup Sj}

\* C14: after any sequence of unite and find calls, find(i) = find(j) exactly
\* when i and j are related by the equivalence closure of the unite calls
\* made; a find call leaves the sets as they were, and unite(i, j) merges the
\* set of i with the set of j and leaves every other set as it was.
C14_UnionFindContract ==
    /\ [](pc = "dsu" =>
            \A i \in DOMAIN parent, j \in DOMAIN parent :
                SameSet(parent, i, j) <=> j \in RelatedTo({i}, probe.united))
    /\ [][pc = "dsu" =>
            IF probe'.united = probe.united
            THEN Partition(parent') = Partition(parent)
            ELSE \E i \in DOMAIN parent, j \in DOMAIN parent :
                    /\ probe'.united = probe.united \cup {{i, j}}
                    /\ Partition(parent') = Merged(Partition(parent), i, j)]_vars

C14_Witness ==
    /\ pc = "dsu"
    /\ nC = 4
    /\ probe.united = {{0, 1}, {2, 3}, {0, 2}}
    /\ parent = [i \in 0 .. 3 |-> 3]

-----------------------------------------------------------------------------
(* Properties of getOppositeWall.                                          *)

\* The three pairs of opposite directions.
OppositePairs ==
    {{WALL_UP, WALL_DOWN}, {WALL_UP_RIGHT, WALL_DOWN_LEFT},
     {WALL_DOWN_RIGHT, WALL_UP_LEFT}}

\* C15: getOppositeWall applied twice to a direction gives the direction
\* back; it pairs up with down, up-right with down-left and down-right with
\* up-left, and no direction is its own opposite.
C15_OppositeInvolution ==
    (probe.step = 4 /\ probe.wallDirection \in Directions) =>
        /\ probe.again = probe.wallDirection
        /\ {probe.wallDirection, probe.opposite} \in OppositePairs
        /\ probe.opposite # probe.wallDirection

C15_Witness ==
    /\ probe.step = 4
    /\ probe.wallDirection = WALL_DOWN_RIGHT
    /\ probe.opposite = WALL_UP_LEFT
    /\ probe.again = WALL_DOWN_RIGHT

-----------------------------------------------------------------------------
(* Properties of the smallest grid.                                        *)

\* C16: with nR = 1 and nC = 1 generation has no candidate, removes no wall
\* and writes no warning; the start cell is the goal cell; the solver gives
\* it count 0, and after solving the path is that one cell, flagged, with
\* its six walls standing.
C16_SingleCell ==
    (nR = 1 /\ nC = 1 /\ pc # "generate") =>
        /\ Start = Goal
        /\ out = << >>
        /\ BitAnd(maze[Start], ALL_WALLS) = ALL_WALLS
        /\ pc = "gen_loop" => (internalWalls = << >> /\ wallsRemoved = 0)
        /\ pc = "generated" => maze[Start] = ALL_WALLS
        /\ pc \in {"bfs", "trace", "solve_ret"} => count[Start] = 0
        /\ pc \in {"solve_ret", "solved", "printed", "exit"} =>
              /\ path = <<Start>>
              /\ maze[Start] = ALL_WALLS + VISITED

C16_Witness ==
    /\ nR = 1
    /\ nC = 1
    /\ pc = "solved"
    /\ path = <<<<0, 0>>>>
    /\ maze = [cell \in {<<0, 0>>} |-> ALL_WALLS + VISITED]
    /\ out = << >>

-----------------------------------------------------------------------------
(* Properties of the generation loop.                                      *)

\* The open-passage components of the grid m.
Components(m, rows, cols) ==
    LET E == OpenPassages(m, rows, cols)
    IN  {RelatedTo({a}, E) : a \in Cells(rows, cols)}

\* The sets of the structure p, as sets of cells.
DsuSets(p, rows, cols) ==
    {{a \in Cells(rows, cols) : CellIdx(a[1], a[2], cols) \in X} : X \in Partition(p)}

\* No cycle of open passages: without any one passage, its two cells are
\* not connected.
Acyclic(m, rows, cols) ==
    LET E == OpenPassages(m, rows, cols)
    IN  \A e \in E : \A a \in e : e \cap RelatedTo({a}, E \ {e}) = {a}

\* C17: at every step of the generation loop two cells have the same
\* union-find representative exactly when open passages connect them; a wall
\* is removed only between cells of different open-passage components, and
\* the open-passage graph is a forest.
C17_DsuTracksComponents ==
    /\ [](pc = "gen_loop" =>
            /\ DsuSets(parent, nR, nC) = Components(maze, nR, nC)
            /\ Acyclic(maze, nR, nC))
    /\ [][(pc = "gen_loop" /\ maze' # maze) =>
            LET E == OpenPassages(maze, nR, nC)
                E2 == OpenPassages(maze', nR, nC)
            IN  \E e \in E2 \ E :
                   /\ E2 = E \cup {e}
                   /\ \A a \in e : e \cap RelatedTo({a}, E) = {a}]_vars

C17_Witness ==
    /\ pc = "gen_loop"
    /\ nR = 2
    /\ nC = 3
    /\ wallsRemoved = 3
    /\ Cardinality(Components(maze, nR, nC)) = 3
    /\ Cardinality(pending) <= 4

-----------------------------------------------------------------------------
(* Properties of the traversal.                                            *)

\* C18: during the BFS phase no cell is pushed onto the queue twice, and a
\* count, once assigned, is not changed by any later step of solveMazeBFS.
C18_PushedOnce ==
    /\ [](pc \in {"bfs", "trace", "solve_ret"} =>
            \A i \in DOMAIN pushed, j \in DOMAIN pushed :
                pushed[i] = pushed[j] => i = j)
    /\ [][(pc \in {"bfs", "trace"} /\ pc' \in {"bfs", "trace", "solve_ret"}) =>
            \A cell \in Cells(nR, nC) :
                count[cell] # -1 => count'[cell] = count[cell]]_vars

C18_Witness ==
    /\ pc = "bfs"
    /\ q = << >>
    /\ Len(pushed) = 4
    /\ nR = 2
    /\ nC = 2
    /\ Cardinality(OpenPassages(maze, nR, nC)) >= 4
    /\ Symmetric(maze, nR, nC)

-----------------------------------------------------------------------------
(* Properties of solving a generated grid.                                 *)

\* C19: on every grid generateMaze produces, solveMazeBFS takes neither
\* failure branch: the start cell has a count after the BFS phase, every
\* reconstruction step finds an open passage to a cell one hop nearer, and
\* the reconstruction ends at the goal cell, with no failure report written.
C19_NoFailureBranch ==
    /\ "no_solution" \notin Range(out)
    /\ "trace_error" \notin Range(out)
    /\ AfterBfs => count[Start] # -1
    /\ (pc = "trace" /\ count[<<currentR, currentC>>] # 0) => ~NoNextCell
    /\ pc = "solve_ret" => <<currentR, currentC>> = Goal

C19_Witness ==
    /\ pc = "solve_ret"
    /\ nR = 3
    /\ nC = 2
    /\ <<currentR, currentC>> = <<2, 1>>
    /\ count[<<0, 0>>] = 5
    /\ out = << >>

-----------------------------------------------------------------------------
(* Frame of solveMazeBFS.                                                  *)

\* C20: solveMazeBFS changes nothing of a cell but its VISITED bit: from its
\* entry on, whatever it reports, the six wall bits and the dead-end bit of
\* every cell are those of the grid it was called on; and no step of
\* generation or solving sets a dead-end bit.
C20_OnlyPathFlagChanges ==
    /\ [](pc \in {"bfs", "trace", "solve_ret", "solved", "printed", "exit"} =>
            \A cell \in Cells(nR, nC) :
                BitClear(maze[cell], VISITED) = BitClear(entry[cell], VISITED))
    /\ [][\A cell \in Cells(nR, nC) :
            HasBit(maze'[cell], DEAD_END) => HasBit(maze[cell], DEAD_END)]_vars

C20_Witness ==
    /\ pc = "solved"
    /\ out = <<"trace_error">>
    /\ \A cell \in Cells(nR, nC) : HasBit(entry[cell], DEAD_END)
    /\ \A cell \in Cells(nR, nC) : HasBit(maze[cell], DEAD_END)
    /\ Flagged(entry) = Cells(nR, nC)
    /\ Flagged(maze) # Cells(nR, nC)
    /\ Flagged(maze) # {}

-----------------------------------------------------------------------------
(* Properties of the border.                                               *)

\* C21: from the reset of generateMaze on, every cell keeps its wall bit in
\* every direction in which getNeighbor finds no in-grid neighbour: no open
\* passage leads out of the grid.
C21_BorderWallsStand ==
    pc # "generate" =>
        \A cell \in Cells(nR, nC), d \in Directions :
            ~getNeighbor(cell[1], cell[2], d, nR, nC).ok => HasBit(maze[cell], d)

C21_Witness ==
    /\ pc = "generated"
    /\ nR = 2
    /\ nC = 3
    /\ Cardinality(OpenNeighbors(maze, <<0, 1>>, nR, nC)) = 4
    /\ HasBit(maze[<<0, 1>>], WALL_UP)

-----------------------------------------------------------------------------
(* Properties of repeated solving.                                         *)

\* C22: solveMazeBFS called a second time on the grid its first call
\* returned returns the same grid, walls and flags, whatever the grid held
\* before the first call.
C22_SolveIdempotent ==
    (pc = "solved" /\ DOMAIN twin # {}) => maze = twin.maze

C22_Witness ==
    /\ pc = "solved"
    /\ DOMAIN twin # {}
    /\ maze = twin.maze
    /\ entry = twin.maze
    /\ Len(path) = 3
    /\ Flagged(maze) = Range(path)
    /\ out = << >>

-----------------------------------------------------------------------------
(* Termination.                                                            *)

\* C23: both algorithms end, on any grid contents: every iteration of the
\* generation loop consumes one candidate of the list, so the loop makes at
\* most one pass; the BFS loop is left only with an empty queue; the
\* reconstruction makes at most count[start] moves and ends at a cell of
\* count 0 or at the trace-failure report; and a call of generateMaze or of
\* solveMazeBFS always returns.
C23_Terminates ==
    /\ [][(pc = "gen_loop" /\ pc' = "gen_loop") =>
            (pending' \subseteq pending /\ pending' # pending)]_vars
    /\ [][(pc = "bfs" /\ pc' # "bfs") => q = << >>]_vars
    /\ []((pc \in {"trace", "solve_ret"} /\ count[Start] # -1) =>
            /\ Len(path) - 1 <= count[Start]
            /\ pc = "solve_ret" =>
                  \/ count[<<currentR, currentC>>] = 0
                  \/ out[Len(out)] = "trace_error")
    /\ (pc = "generate") ~> (pc = "generated")
    /\ (pc = "generated") ~> (pc = "solved")

C23_Witness ==
    /\ pc = "solved"
    /\ out = <<"trace_error">>
    /\ Len(path) = 2
    /\ ~Symmetric(maze, nR, nC)
    /\ nR * nC = 4

====
